---- MODULE Spec2Model ----
(***************************************************************************)
(* HarmonyLink.py: a SQLite store of users, mood sessions, breathing       *)
(* levels, breathing sessions and per-user statistics.  The state is the   *)
(* content of the five tables plus sqlite_sequence (the AUTOINCREMENT      *)
(* counters); every function of the script is one action.                  *)
(*                                                                         *)
(* Columns that no statement reads and no constraint mentions beyond their *)
(* type (created_at, started_at, completed_at, q1..q3_answer, description) *)
(* are left out of the rows.  Text arguments are always non-NULL strings;  *)
(* integer arguments may be NULL (Python None).                            *)
(*                                                                         *)
(* Every function opens its own connection and closes it on its last       *)
(* lines only.  When cur.execute raises, commit and close are skipped: the *)
(* connection stays open, and with it the transaction that sqlite3 began   *)
(* before the INSERT/UPDATE/DELETE.  If the statement had started writing  *)
(* (a constraint failure), that transaction holds the write lock of the    *)
(* database file until Python's garbage collector finalizes the connection;*)
(* until then every writing statement of another connection ends in        *)
(* sqlite3.OperationalError "database is locked", while SELECT still runs. *)
(* When the collector runs is not decided by the script: gc is an action   *)
(* that may happen between any two calls.                                  *)
(***************************************************************************)
EXTENDS Integers, FiniteSets, Sequences, TLC

VARIABLES
    users,               \* table users
    mood_sessions,       \* table mood_sessions
    breathing_levels,    \* table breathing_levels
    breathing_sessions,  \* table breathing_sessions
    user_stats,          \* table user_stats
    sqlite_sequence,     \* AUTOINCREMENT counters, one per table that has one
    today,               \* DATE('now'), as a day number
    conn,                \* the connection the latest call opened, as the call left it
    locked,              \* an unclosed connection of a failed call holds the write lock
    lastOp,              \* the latest call: function, outcome, returned id
    activity             \* history: <<user_id, day>> of every update_user_stats call
                         \* made for a user that had a stats row

vars == <<users, mood_sessions, breathing_levels, breathing_sessions, user_stats,
          sqlite_sequence, today, conn, locked, lastOp, activity>>

tables == <<users, mood_sessions, breathing_levels, breathing_sessions, user_stats,
            sqlite_sequence>>

-----------------------------------------------------------------------------
(* Bounds of the model *)

MaxUsers == 1

MaxMood == 1

MaxBreath == 1

MaxDay == 4

MaxTotal == 10

-----------------------------------------------------------------------------
(* Values *)

\* SQL NULL / Python None in an integer column or argument
NULL == -1

Names == {"Moamen User"}

Emails == {"moamen@example.com", "other@example.com"}

PasswordHashes == {"hash123"}

UserIdInputs == 1..MaxUsers

MoodIdInputs == 1..MaxMood

BreathIdInputs == 1..MaxBreath

LevelIdInputs == {3}

StressInputs == {NULL, 0, 1, 5, 6}

MoodPoints == {5}

BreathPoints == {30}

AddedPoints == {0, 5}

\* the five rows of the INSERT OR IGNORE statement
SeedLevels ==
    { [level_id |-> 1, title |-> "Level 1 - Easy",   duration_seconds |-> 60,  base_points |-> 10],
      [level_id |-> 2, title |-> "Level 2 - Light",  duration_seconds |-> 120, base_points |-> 20],
      [level_id |-> 3, title |-> "Level 3 - Medium", duration_seconds |-> 180, base_points |-> 30],
      [level_id |-> 4, title |-> "Level 4 - Hard",   duration_seconds |-> 240, base_points |-> 40],
      [level_id |-> 5, title |-> "Level 5 - Expert", duration_seconds |-> 300, base_points |-> 50] }

-----------------------------------------------------------------------------
(* Connections *)

\* sqlite3.connect: a new connection enforces no foreign key until
\* PRAGMA foreign_keys = ON is executed on it; get_connection executes none.
get_connection == [foreign_keys |-> FALSE, open |-> TRUE]

\* conn.close()
close(c) == [c EXCEPT !.open = FALSE]

\* PRAGMA foreign_keys = ON, first statement of SCHEMA_SQL
PragmaForeignKeysOn(c) == [c EXCEPT !.foreign_keys = TRUE]

-----------------------------------------------------------------------------
(* Constraints of the schema *)

\* email TEXT NOT NULL UNIQUE
users_email_UNIQUE(email) == \A u \in users : u.email # email

\* stress_level INTEGER NOT NULL CHECK (stress_level BETWEEN 1 AND 5)
stress_level_CHECK(stress_level) ==
    /\ stress_level # NULL
    /\ stress_level >= 1
    /\ stress_level <= 5

\* FOREIGN KEY (user_id) REFERENCES users(user_id), enforced only with the pragma on
fk_user(c, user_id) ==
    c.foreign_keys => \E u \in users : u.user_id = user_id

\* FOREIGN KEY (session_id) REFERENCES mood_sessions(session_id); a NULL child key is exempt
fk_session(c, session_id) ==
    (c.foreign_keys /\ session_id # NULL) => \E m \in mood_sessions : m.session_id = session_id

\* FOREIGN KEY (level_id) REFERENCES breathing_levels(level_id)
fk_level(c, level_id) ==
    c.foreign_keys => \E l \in breathing_levels : l.level_id = level_id

\* user_stats.user_id INTEGER PRIMARY KEY
user_stats_PRIMARY_KEY(user_id) == \A s \in user_stats : s.user_id # user_id

\* user_id INTEGER NOT NULL (mood_sessions, breathing_sessions), level_id INTEGER NOT NULL
NOT_NULL(v) == v # NULL

\* INTEGER PRIMARY KEY AUTOINCREMENT: one more than the largest rowid ever used
lastrowid(table) == sqlite_sequence[table] + 1

\* defaults of user_stats: total_points 0, current_streak_days 0, last_activity_date NULL
user_stats_DEFAULT(user_id) ==
    [user_id |-> user_id, total_points |-> 0, current_streak_days |-> 0,
     last_activity_date |-> NULL]

\* INSERT OR IGNORE INTO breathing_levels: a seed row is inserted unless its level_id is taken
INSERT_OR_IGNORE_levels(levels) ==
    levels \cup { r \in SeedLevels : \A l \in levels : l.level_id # r.level_id }

-----------------------------------------------------------------------------
(* The UPDATE of update_user_stats *)

\* SQL "=": NULL on either side is not true
SqlEq(a, b) == a # NULL /\ b # NULL /\ a = b

\* the CASE expression with a same-day call counted as one more day
current_streak_days_CASE_same_day_counts(current_streak_days, last_activity_date, now) ==
    IF SqlEq(last_activity_date, now - 1) THEN current_streak_days + 1
    ELSE IF SqlEq(last_activity_date, now) THEN current_streak_days + 1
    ELSE 1

\* the CASE expression; last_activity_date is the value of the row before the UPDATE
current_streak_days_CASE(current_streak_days, last_activity_date, now) ==
    IF SqlEq(last_activity_date, now - 1) THEN current_streak_days + 1
    ELSE IF SqlEq(last_activity_date, now) THEN current_streak_days
    ELSE 1

\* UPDATE user_stats SET ... WHERE user_id = ?: every matching row is rewritten from its old values
UPDATE_user_stats(stats, user_id, added_points, now) ==
    { IF s.user_id = user_id
      THEN [user_id |-> s.user_id,
            total_points |-> s.total_points + added_points,
            current_streak_days |->
                current_streak_days_CASE(s.current_streak_days, s.last_activity_date, now),
            last_activity_date |-> now]
      ELSE s : s \in stats }

-----------------------------------------------------------------------------
(* How a call ends *)

\* the function returns: commit and close were reached
Return(c, op, result) ==
    /\ conn' = close(c)
    /\ lastOp' = [op |-> op, outcome |-> "ok", result |-> result]
    /\ UNCHANGED locked

\* cur.execute raises sqlite3.IntegrityError: the lines after it (commit, close) are
\* skipped, nothing of the call is committed, the exception reaches the caller, and
\* the connection is left open inside its write transaction
Raise(c, op) ==
    /\ conn' = c
    /\ locked' = TRUE
    /\ lastOp' = [op |-> op, outcome |-> "IntegrityError", result |-> NULL]
    /\ UNCHANGED <<tables, activity>>

\* cur.execute raises sqlite3.OperationalError (database is locked): another
\* connection holds the write lock; commit and close are skipped here too
Busy(c, op) ==
    /\ conn' = c
    /\ lastOp' = [op |-> op, outcome |-> "OperationalError", result |-> NULL]
    /\ UNCHANGED <<tables, locked>>

-----------------------------------------------------------------------------
(* The functions of the script *)

init_db ==
    LET c == PragmaForeignKeysOn(get_connection)
    IN  /\ UNCHANGED <<today, activity>>
        /\ IF locked
           THEN Busy(c, "init_db")
           ELSE /\ breathing_levels' = INSERT_OR_IGNORE_levels(breathing_levels)
                /\ UNCHANGED <<users, mood_sessions, breathing_sessions, user_stats,
                               sqlite_sequence>>
                /\ Return(c, "init_db", NULL)

create_user(name, email, password_hash) ==
    LET c == get_connection
        user_id == lastrowid("users")
    IN  /\ UNCHANGED today
        /\ IF locked
           THEN Busy(c, "create_user") /\ UNCHANGED activity
           ELSE IF ~users_email_UNIQUE(email)
           THEN Raise(c, "create_user")
           ELSE IF ~user_stats_PRIMARY_KEY(user_id)
           THEN Raise(c, "create_user")
           ELSE /\ sqlite_sequence["users"] < MaxUsers
                /\ users' = users \cup
                       { [user_id |-> user_id, name |-> name, email |-> email,
                          password_hash |-> password_hash] }
                /\ sqlite_sequence' = [sqlite_sequence EXCEPT !["users"] = user_id]
                /\ user_stats' = user_stats \cup { user_stats_DEFAULT(user_id) }
                /\ UNCHANGED <<mood_sessions, breathing_levels, breathing_sessions, activity>>
                /\ Return(c, "create_user", user_id)

add_mood_session(user_id, stress_level, points_earned) ==
    LET c == get_connection
        sid == lastrowid("mood_sessions")
    IN  /\ UNCHANGED today
        /\ IF locked
           THEN Busy(c, "add_mood_session") /\ UNCHANGED activity
           ELSE IF ~(NOT_NULL(user_id) /\ stress_level_CHECK(stress_level) /\ fk_user(c, user_id))
           THEN Raise(c, "add_mood_session")
           ELSE /\ sqlite_sequence["mood_sessions"] < MaxMood
                /\ mood_sessions' = mood_sessions \cup
                       { [session_id |-> sid, user_id |-> user_id,
                          stress_level |-> stress_level, points_earned |-> points_earned] }
                /\ sqlite_sequence' = [sqlite_sequence EXCEPT !["mood_sessions"] = sid]
                /\ UNCHANGED <<users, breathing_levels, breathing_sessions, user_stats, activity>>
                /\ Return(c, "add_mood_session", sid)

add_breathing_session(user_id, level_id, session_id, points_earned) ==
    LET c == get_connection
        bid == lastrowid("breathing_sessions")
    IN  /\ UNCHANGED today
        /\ IF locked
           THEN Busy(c, "add_breathing_session") /\ UNCHANGED activity
           ELSE IF ~(/\ NOT_NULL(user_id) /\ NOT_NULL(level_id)
                     /\ fk_user(c, user_id) /\ fk_session(c, session_id)
                     /\ fk_level(c, level_id))
           THEN Raise(c, "add_breathing_session")
           ELSE /\ sqlite_sequence["breathing_sessions"] < MaxBreath
                /\ breathing_sessions' = breathing_sessions \cup
                       { [breathing_session_id |-> bid, user_id |-> user_id,
                          session_id |-> session_id, level_id |-> level_id,
                          points_earned |-> points_earned] }
                /\ sqlite_sequence' = [sqlite_sequence EXCEPT !["breathing_sessions"] = bid]
                /\ UNCHANGED <<users, mood_sessions, breathing_levels, user_stats, activity>>
                /\ Return(c, "add_breathing_session", bid)

update_user_stats(user_id, added_points) ==
    LET c == get_connection
        hit == \E s \in user_stats : s.user_id = user_id
    IN  /\ UNCHANGED today
        /\ activity' = IF hit THEN activity \cup {<<user_id, today>>} ELSE activity
        /\ IF locked
           THEN Busy(c, "update_user_stats")
           ELSE /\ \A s \in user_stats :
                       s.user_id = user_id => s.total_points + added_points <= MaxTotal
                /\ user_stats' = UPDATE_user_stats(user_stats, user_id, added_points, today)
                /\ UNCHANGED <<users, mood_sessions, breathing_levels, breathing_sessions,
                               sqlite_sequence>>
                /\ Return(c, "update_user_stats", NULL)

\* ON DELETE SET NULL of breathing_sessions.session_id, for the mood sessions in gone
SET_NULL_session_id(bs, gone) ==
    { IF b.session_id \in gone THEN [b EXCEPT !.session_id = NULL] ELSE b : b \in bs }

delete_user(user_id) ==
    LET c == get_connection
        \* the ON DELETE actions run only on a connection with the pragma on
        cascade == c.foreign_keys /\ \E u \in users : u.user_id = user_id
        gone == { m.session_id : m \in { x \in mood_sessions : x.user_id = user_id } }
    IN  /\ UNCHANGED <<today, activity>>
        /\ IF locked
           THEN Busy(c, "delete_user")
           ELSE /\ users' = { u \in users : u.user_id # user_id }
                /\ IF cascade
                   THEN /\ mood_sessions' = { m \in mood_sessions : m.user_id # user_id }
                        /\ breathing_sessions' =
                               SET_NULL_session_id(
                                   { b \in breathing_sessions : b.user_id # user_id }, gone)
                        /\ user_stats' = { s \in user_stats : s.user_id # user_id }
                   ELSE UNCHANGED <<mood_sessions, breathing_sessions, user_stats>>
                /\ UNCHANGED <<breathing_levels, sqlite_sequence>>
                /\ Return(c, "delete_user", NULL)

delete_mood_session(session_id) ==
    LET c == get_connection
        cascade == c.foreign_keys /\ \E m \in mood_sessions : m.session_id = session_id
    IN  /\ UNCHANGED <<today, activity>>
        /\ IF locked
           THEN Busy(c, "delete_mood_session")
           ELSE /\ mood_sessions' = { m \in mood_sessions : m.session_id # session_id }
                /\ breathing_sessions' =
                       IF cascade THEN SET_NULL_session_id(breathing_sessions, {session_id})
                       ELSE breathing_sessions
                /\ UNCHANGED <<users, breathing_levels, user_stats, sqlite_sequence>>
                /\ Return(c, "delete_mood_session", NULL)

delete_breathing_session(breathing_session_id) ==
    LET c == get_connection
    IN  /\ UNCHANGED <<today, activity>>
        /\ IF locked
           THEN Busy(c, "delete_breathing_session")
           ELSE /\ breathing_sessions' =
                       { b \in breathing_sessions :
                             b.breathing_session_id # breathing_session_id }
                /\ UNCHANGED <<users, mood_sessions, breathing_levels, user_stats,
                               sqlite_sequence>>
                /\ Return(c, "delete_breathing_session", NULL)

delete_breathing_level(level_id) ==
    LET c == get_connection
        \* FOREIGN KEY (level_id) without ON DELETE: a referenced level is not deletable
        restricted == /\ c.foreign_keys
                      /\ \E l \in breathing_levels : l.level_id = level_id
                      /\ \E b \in breathing_sessions : b.level_id = level_id
    IN  /\ UNCHANGED today
        /\ IF locked
           THEN Busy(c, "delete_breathing_level") /\ UNCHANGED activity
           ELSE IF restricted
           THEN Raise(c, "delete_breathing_level")
           ELSE /\ breathing_levels' = { l \in breathing_levels : l.level_id # level_id }
                /\ UNCHANGED <<users, mood_sessions, breathing_sessions, user_stats,
                               sqlite_sequence, activity>>
                /\ Return(c, "delete_breathing_level", NULL)

delete_user_stats(user_id) ==
    LET c == get_connection
    IN  /\ UNCHANGED <<today, activity>>
        /\ IF locked
           THEN Busy(c, "delete_user_stats")
           ELSE /\ user_stats' = { s \in user_stats : s.user_id # user_id }
                /\ UNCHANGED <<users, mood_sessions, breathing_levels, breathing_sessions,
                               sqlite_sequence>>
                /\ Return(c, "delete_user_stats", NULL)

\* SELECT * FROM <table>, printed row by row: reads, changes nothing, and is not
\* stopped by the write lock of another connection
print_table(op) ==
    LET c == get_connection
    IN  /\ UNCHANGED <<tables, today, activity>>
        /\ Return(c, op, NULL)

print_users == print_table("print_users")

print_mood_sessions == print_table("print_mood_sessions")

print_breathing_levels == print_table("print_breathing_levels")

print_breathing_sessions == print_table("print_breathing_sessions")

print_user_stats == print_table("print_user_stats")

-----------------------------------------------------------------------------
(* What happens around the script *)

\* Python's garbage collector finalizes the connections that failed calls left open:
\* their transactions are rolled back, the write lock is released
gc ==
    /\ locked \/ conn.open
    /\ locked' = FALSE
    /\ conn' = close(conn)
    /\ UNCHANGED <<tables, today, lastOp, activity>>

\* midnight passes: DATE('now') moves to the next day
AdvanceDay ==
    /\ today < MaxDay
    /\ today' = today + 1
    /\ lastOp' = [op |-> "midnight", outcome |-> "ok", result |-> NULL]
    /\ UNCHANGED <<tables, conn, locked, activity>>

-----------------------------------------------------------------------------
(* The store after the first init_db() of a new database file *)

Init ==
    /\ users = {}
    /\ mood_sessions = {}
    /\ breathing_levels = SeedLevels
    /\ breathing_sessions = {}
    /\ user_stats = {}
    /\ sqlite_sequence = [t \in {"users", "mood_sessions", "breathing_sessions"} |-> 0]
    /\ today = 1
    /\ conn = close(PragmaForeignKeysOn(get_connection))
    /\ locked = FALSE
    /\ lastOp = [op |-> "init_db", outcome |-> "ok", result |-> NULL]
    /\ activity = {}

\* every function of the script, called in any order with any argument, while the
\* days pass and the collector runs when it pleases
Next ==
    \/ init_db
    \/ \E name \in Names, email \in Emails, password_hash \in PasswordHashes :
           create_user(name, email, password_hash)
    \/ \E user_id \in UserIdInputs \cup {NULL}, stress_level \in StressInputs,
          points_earned \in MoodPoints :
           add_mood_session(user_id, stress_level, points_earned)
    \/ \E user_id \in UserIdInputs, level_id \in LevelIdInputs,
          session_id \in MoodIdInputs \cup {NULL}, points_earned \in BreathPoints :
           add_breathing_session(user_id, level_id, session_id, points_earned)
    \/ \E user_id \in UserIdInputs, added_points \in AddedPoints :
           update_user_stats(user_id, added_points)
    \/ \E user_id \in UserIdInputs : delete_user(user_id)
    \/ \E session_id \in MoodIdInputs : delete_mood_session(session_id)
    \/ \E breathing_session_id \in BreathIdInputs :
           delete_breathing_session(breathing_session_id)
    \/ \E level_id \in LevelIdInputs : delete_breathing_level(level_id)
    \/ \E user_id \in UserIdInputs : delete_user_stats(user_id)
    \/ print_users
    \/ print_mood_sessions
    \/ print_breathing_levels
    \/ print_breathing_sessions
    \/ print_user_stats
    \/ gc
    \/ AdvanceDay

Spec == Init /\ [][Next]_vars

\* users are created, each with an email not yet in use, and from then on the only
\* calls are update_user_stats calls, while the days pass
NextStreak ==
    \/ \E name \in Names, email \in Emails, password_hash \in PasswordHashes :
           users_email_UNIQUE(email) /\ create_user(name, email, password_hash)
    \/ \E user_id \in UserIdInputs, added_points \in AddedPoints :
           update_user_stats(user_id, added_points)
    \/ AdvanceDay

SpecStreak == Init /\ [][NextStreak]_vars

-----------------------------------------------------------------------------
(* Properties *)

UserIds == { u.user_id : u \in users }

\* the days on which update_user_stats was called for user_id
ActiveDays(user_id) == { a[2] : a \in { x \in activity : x[1] = user_id } }

\* the number of consecutive days of S that end with day
RECURSIVE ConsecutiveDays(_, _)
ConsecutiveDays(S, day) == IF day \in S THEN 1 + ConsecutiveDays(S, day - 1) ELSE 0

\* C1: for a user that has a stats row, update_user_stats(u, p) adds p to total_points,
\* sets last_activity_date to today, and sets current_streak_days to old + 1 if the date
\* before the call is yesterday, leaves it if that date is today, and sets it to 1
\* otherwise (older date or NULL).
C1_UpdateContract ==
    [][\A u \in UserIdInputs, p \in AddedPoints : \A s \in user_stats :
          (update_user_stats(u, p) /\ s.user_id = u) =>
              user_stats' = (user_stats \ {s}) \cup
                  { [user_id |-> u,
                     total_points |-> s.total_points + p,
                     current_streak_days |->
                         IF s.last_activity_date # NULL /\ s.last_activity_date = today - 1
                         THEN s.current_streak_days + 1
                         ELSE IF s.last_activity_date # NULL /\ s.last_activity_date = today
                         THEN s.current_streak_days
                         ELSE 1,
                     last_activity_date |-> today] }
      ]_vars

\* C2: on a freshly created user, with update_user_stats the only calls made and the day
\* only advancing, a stats row updated today holds as current_streak_days the number of
\* consecutive days ending today on each of which a call was made.
C2_StreakCountsConsecutiveDays ==
    \A s \in user_stats :
        s.last_activity_date = today =>
            s.current_streak_days = ConsecutiveDays(ActiveDays(s.user_id), today)

\* C2 witness: calls on day 1, none on day 2, then on days 3 and 4: the streak was reset
\* after the gap and has grown to 2 again
C2_Witness ==
    /\ lastOp.op = "update_user_stats"
    /\ today = 4
    /\ \E s \in user_stats :
           /\ s.last_activity_date = today
           /\ s.current_streak_days = 2
           /\ ActiveDays(s.user_id) = {1, 3, 4}

\* C3: after delete_user(u) completes, no mood session, no breathing session and no
\* stats row with user id u remains.
C3_DeleteUserCascades ==
    [][\A u \in UserIdInputs :
          (delete_user(u) /\ lastOp'.outcome = "ok") =>
              /\ \A m \in mood_sessions' : m.user_id # u
              /\ \A b \in breathing_sessions' : b.user_id # u
              /\ \A s \in user_stats' : s.user_id # u
      ]_vars

\* C4: in every reachable state every mood session, breathing session and stats row has
\* the user id of an existing users row.
C4_RowsReferenceLiveUser ==
    /\ \A m \in mood_sessions : m.user_id \in UserIds
    /\ \A b \in breathing_sessions : b.user_id \in UserIds
    /\ \A s \in user_stats : s.user_id \in UserIds

\* C5: delete_breathing_level(l), when a breathing session has level id l, fails with an
\* error and leaves every row of every table, level l included, as it was.
C5_ReferencedLevelNotDeleted ==
    [][\A l \in LevelIdInputs :
          (delete_breathing_level(l) /\ \E b \in breathing_sessions : b.level_id = l) =>
              /\ lastOp'.outcome # "ok"
              /\ UNCHANGED tables
      ]_vars

\* C6: create_user is all-or-nothing: a successful call adds exactly one users row and
\* one user_stats row with the same new id and the values 0, 0, NULL; a call with the
\* email of an existing user fails with a uniqueness error; a failing call changes no row.
C6_CreateUserAllOrNothing ==
    [][\A n \in Names, e \in Emails, h \in PasswordHashes :
          create_user(n, e, h) =>
              /\ (\E u \in users : u.email = e) =>
                     /\ lastOp'.outcome = "IntegrityError"
                     /\ UNCHANGED tables
              /\ lastOp'.outcome = "ok" =>
                     /\ lastOp'.result \notin UserIds
                     /\ \A s \in user_stats : s.user_id # lastOp'.result
                     /\ users' = users \cup
                            { [user_id |-> lastOp'.result, name |-> n, email |-> e,
                               password_hash |-> h] }
                     /\ user_stats' = user_stats \cup
                            { [user_id |-> lastOp'.result, total_points |-> 0,
                               current_streak_days |-> 0, last_activity_date |-> NULL] }
                     /\ UNCHANGED <<mood_sessions, breathing_levels, breathing_sessions>>
              /\ lastOp'.outcome # "ok" => UNCHANGED tables
      ]_vars

\* C7: add_mood_session for an existing user with a stress level in 1..5 inserts exactly
\* one row and returns its id; with a stress level outside 1..5 it fails and inserts
\* nothing; every stored mood session has a stress level in 1..5.
C7_MoodSessionStressLevel ==
    [][\A u \in UserIdInputs \cup {NULL}, sl \in StressInputs, p \in MoodPoints :
          add_mood_session(u, sl, p) =>
              /\ (u \in UserIds /\ sl \in 1..5) =>
                     /\ lastOp'.outcome = "ok"
                     /\ \A m \in mood_sessions : m.session_id # lastOp'.result
                     /\ mood_sessions' = mood_sessions \cup
                            { [session_id |-> lastOp'.result, user_id |-> u,
                               stress_level |-> sl, points_earned |-> p] }
              /\ sl \notin 1..5 =>
                     /\ lastOp'.outcome # "ok"
                     /\ UNCHANGED tables
              /\ \A m \in mood_sessions' : m.stress_level \in 1..5
      ]_vars

\* C8: after any call of init_db the catalog holds exactly one row for each of the ids
\* 1..5, with the seed values, and the call leaves every users, mood_sessions,
\* breathing_sessions and user_stats row unchanged.
C8_InitDbRestoresCatalog ==
    [][init_db =>
          /\ \A i \in 1..5 : Cardinality({ l \in breathing_levels' : l.level_id = i }) = 1
          /\ breathing_levels' = SeedLevels
          /\ UNCHANGED <<users, mood_sessions, breathing_sessions, user_stats>>
      ]_vars

\* C9: update_user_stats(u, p) for a user id without a stats row raises no error,
\* creates no stats row and leaves every row of every table unchanged.
C9_UpdateWithoutStatsRow ==
    [][\A u \in UserIdInputs, p \in AddedPoints :
          (update_user_stats(u, p) /\ \A s \in user_stats : s.user_id # u) =>
              /\ lastOp'.outcome = "ok"
              /\ UNCHANGED tables
      ]_vars

\* C10: when a call has ended, with a result or with an error, the connection it opened
\* is closed.
C10_ConnectionClosedAfterCall == ~conn.open

====
